---- MODULE Spec2Model ----
(***************************************************************************)
(* Location-based alerting of gt12889/tamuhack2026:                        *)
(*   backend/api/services/location_service.py        (LocationService)     *)
(*   backend/api/services/location_alert_service.py  (LocationAlertService)*)
(*   backend/api/models.py           (PassengerLocation, LocationAlert)    *)
(*   backend/api/views.py            (the location endpoints)              *)
(*                                                                         *)
(* Units.  Positions are centimetres north of the departure gate along the *)
(* gate's meridian, where the haversine distance of _calculate_distance is *)
(* the absolute difference.  Times are seconds; the clock advances in      *)
(* ticks of TickSeconds.  Python's None is the number None (-1): every     *)
(* metric the code computes is >= 0.                                       *)
(***************************************************************************)
EXTENDS Integers, Sequences, FiniteSets, TLC

(* ------------------------------ bounds -------------------------------- *)
NumWorkers == 2
\* concurrent request handlers
MaxAlerts == 2
\* LocationAlert rows a run may create
MaxFixes == 2
\* PassengerLocation rows a run may create
MaxTicks == 3
\* clock ticks a run may take
TickSeconds == 300
\* seconds per clock tick
ConcTicks == 1
\* clock ticks of a run of concurrent handlers
MaxEvalSteps == 48
\* distances tried by the evaluator: 0 .. MaxEvalSteps * 25 m
MaxEvalTicks == 18
\* departure offsets tried by the evaluator, in ticks

(* ------------------------- program constants -------------------------- *)
MIN_MOVEMENT_THRESHOLD == 50
GATE_ARRIVAL_THRESHOLD == 100
SAFE_BUFFER == 30
WARNING_BUFFER == 15
ALERT_COOLDOWN == 10
URGENT_COOLDOWN == 5
None == -1
MicroDegreeCm == 11
\* one step of a DecimalField(decimal_places=6) latitude, 1e-6 degree, in cm

Cm(metres) == metres * 100
Seconds(minutes) == minutes * 60
Abs(x) == IF x < 0 THEN -x ELSE x
Max(a, b) == IF a >= b THEN a ELSE b

(* Python's round(): to the nearest integer, a tie to the even one.       *)
RoundHalfEven(n, den) ==
    LET q == n \div den
        r == n % den
    IN  IF 2 * r < den THEN q
        ELSE IF 2 * r > den THEN q + 1
        ELSE IF q % 2 = 0 THEN q ELSE q + 1

(* Python's int(): truncation toward zero.                                *)
Trunc(n, den) == IF n >= 0 THEN n \div den ELSE -((-n) \div den)

WALKING_SPEEDS == [normal |-> 80, elderly |-> 50, rushed |-> 100]

WalkingSpeed(pace) ==
    IF pace \in DOMAIN WALKING_SPEEDS THEN WALKING_SPEEDS[pace]
    ELSE WALKING_SPEEDS["elderly"]

EstimateWalkingTimeTrunc(distance, pace) ==
    Max(1, Trunc(distance, Cm(WalkingSpeed(pace))))

(* estimate_walking_time: max(1, round(distance / speed)), distance in cm *)
EstimateWalkingTime(distance, pace) ==
    Max(1, RoundHalfEven(distance, Cm(WalkingSpeed(pace))))

(* _calculate_distance on one meridian: R * |dlat|, in cm.                *)
CalculateDistance(p1, p2) == Abs(p2 - p1)

(* Decimal(str(lat)) saved to DecimalField(max_digits=9, decimal_places=6):*)
(* the value is quantized to the nearest 1e-6 degree.                      *)
Quantize6(p) == RoundHalfEven(p, MicroDegreeCm) * MicroDegreeCm

TimeToDepartureSigned(departure, t) == Trunc(departure - t, 60)

(* max(0, int((departure_time - now).total_seconds() / 60))               *)
TimeToDeparture(departure, t) == Max(0, Trunc(departure - t, 60))

(* Mutants of ClassifyStatus: the arrival test with < for <=, the urgent  *)
(* test with < for >, and the urgent test without its buffer.             *)
ClassifyStatusStrict(distance, walking_time, time_to_departure) ==
    IF distance < Cm(GATE_ARRIVAL_THRESHOLD) THEN "arrived"
    ELSE IF walking_time > time_to_departure - WARNING_BUFFER THEN "urgent"
    ELSE IF walking_time > time_to_departure - SAFE_BUFFER THEN "warning"
    ELSE "safe"

ClassifyStatusInverted(distance, walking_time, time_to_departure) ==
    IF distance <= Cm(GATE_ARRIVAL_THRESHOLD) THEN "arrived"
    ELSE IF walking_time < time_to_departure - WARNING_BUFFER THEN "urgent"
    ELSE IF walking_time > time_to_departure - SAFE_BUFFER THEN "warning"
    ELSE "safe"

ClassifyStatusNoBuffer(distance, walking_time, time_to_departure) ==
    IF distance <= Cm(GATE_ARRIVAL_THRESHOLD) THEN "arrived"
    ELSE IF walking_time > time_to_departure THEN "urgent"
    ELSE IF walking_time > time_to_departure - SAFE_BUFFER THEN "warning"
    ELSE "safe"

(* The status rule of check_alert_status, on the unrounded distance.      *)
ClassifyStatus(distance, walking_time, time_to_departure) ==
    IF distance <= Cm(GATE_ARRIVAL_THRESHOLD) THEN "arrived"
    ELSE IF walking_time > time_to_departure - WARNING_BUFFER THEN "urgent"
    ELSE IF walking_time > time_to_departure - SAFE_BUFFER THEN "warning"
    ELSE "safe"

VARIABLES
    now,        \* the clock, in ticks
    session,    \* the Session row "s1" and the rows it points to
    locations,  \* PassengerLocation rows of the session, oldest first
    alerts,     \* LocationAlert rows, oldest first; the index is the id
    calls,      \* outbound voice calls attempted
    emails,     \* helper emails attempted
    wk,         \* per request handler: its position and its locals
    ev          \* the evaluator's inputs and outputs (pure-function checks)

vars == <<now, session, locations, alerts, calls, emails, wk, ev>>

(* ------------------------------ the data ------------------------------ *)
Workers == 1..NumWorkers
RaceWorkers == 1..(NumWorkers + 1)
Clock == now * TickSeconds
GatePosition == 0
SessionIds == {"s1", "nosuch"}
AlertTypes == {"running_late", "urgent"}

NoMessage == [kind |-> "none", walking_time |-> None, time_to_departure |-> None]
NoSummary == [type |-> "none", message |-> NoMessage, distance_meters |-> None]

(* The Session row and what it points to: its reservation, the first      *)
(* flight segment, the flight's gate and departure_time, the passenger's  *)
(* phone, and the context blob (helper_email, location_alert).            *)
SessionShape(res, seg, gate, phone, helper) ==
    [reservation |-> res, segment |-> seg, gate |-> gate, phone |-> phone,
     departure |-> Seconds(40),
     context |-> [helper_email |-> helper, wheelchair_assistance |-> FALSE,
                  location_alert |-> NoSummary]]

SessionShapes ==
    { SessionShape(TRUE, TRUE, TRUE, TRUE, TRUE),
      SessionShape(TRUE, TRUE, TRUE, FALSE, FALSE),
      SessionShape(TRUE, TRUE, FALSE, TRUE, FALSE),
      SessionShape(TRUE, FALSE, FALSE, TRUE, TRUE),
      SessionShape(FALSE, FALSE, FALSE, FALSE, FALSE) }

(* Stored fixes lie on the 1e-6 degree grid: 39.93 m, 200.09 m, 600.05 m  *)
(* and 1300.09 m from the gate.                                           *)
StoredPositions == {3993, 20009, 60005, 130009}
(* update_location takes any float: 49.99 m, 50 m and 51 m from 200.09 m, *)
(* and the grid points themselves.                                        *)
InputPositions == {20009, 25008, 25009, 25109, 60005}

NoRow ==
    [session |-> "none", alert_type |-> "none", message |-> NoMessage,
     distance_to_gate |-> None, estimated_walking_time |-> None,
     time_to_departure |-> None, acknowledged |-> FALSE,
     voice_call_sent |-> FALSE, email_sent |-> FALSE, created_at |-> None,
     forced |-> FALSE, seen |-> 0]

(* A handler's locals.  forced and seen (on a row too) are history: the    *)
(* force argument of the dispatch that made the row, and how many rows     *)
(* existed when its cooldown check ran.                                    *)
NoMetrics ==
    [alert_status |-> "none", distance_meters |-> None,
     walking_time_minutes |-> None, time_to_departure_minutes |-> None,
     message |-> "none"]

Idle ==
    [pc |-> "idle", op |-> "none", sid |-> "none", atype |-> "none",
     force |-> FALSE, status |-> "none", recent_alert |-> FALSE,
     ctx |-> [helper_email |-> FALSE, wheelchair_assistance |-> FALSE,
              location_alert |-> NoSummary],
     seen |-> 0, alert_id |-> 0, row |-> NoRow, lat |-> None, last |-> None,
     result |-> "pending", r_voice |-> "absent", r_email |-> "absent",
     call_result |-> "none", email_result |-> "none", metrics |-> NoMetrics,
     view |-> "none", stored |-> FALSE, alert_triggered |-> FALSE, http |-> 0,
     alert |-> 0]

EvIdle == [d1 |-> 0, d2 |-> 0, secs |-> 0, done |-> FALSE,
           wt1 |-> None, wt2 |-> None, ttd |-> None,
           s1 |-> "none", s2 |-> "none", pace |-> "elderly"]

(* ------------------------- LocationService ---------------------------- *)
(* get_current_location: the newest fix, or None.                         *)
GetCurrentLocation(sid) ==
    IF sid = "s1" /\ Len(locations) > 0 THEN locations[Len(locations)] ELSE None

(* get_gate_location_for_session: None without reservation, segment, gate *)
GetGateLocationForSession(sid) ==
    IF sid = "s1" /\ session.reservation /\ session.segment /\ session.gate
    THEN GatePosition ELSE None

Unavailable(msg) ==
    [alert_status |-> "safe", distance_meters |-> None,
     walking_time_minutes |-> None, time_to_departure_minutes |-> None,
     message |-> msg]

CheckAlertStatusGateFirst(sid) ==
    IF sid # "s1" THEN Unavailable("Session not found")
    ELSE IF GetGateLocationForSession(sid) = None
    THEN Unavailable("Gate information not available")
    ELSE IF GetCurrentLocation(sid) = None
    THEN Unavailable("No location data available")
    ELSE IF ~session.segment
    THEN Unavailable("Flight information not available")
    ELSE LET distance == CalculateDistance(GetCurrentLocation(sid),
                                           GetGateLocationForSession(sid))
             walking_time == EstimateWalkingTime(distance, "elderly")
             time_to_departure == TimeToDeparture(session.departure, Clock)
         IN  [alert_status |-> ClassifyStatus(distance, walking_time,
                                              time_to_departure),
              distance_meters |-> RoundHalfEven(distance, 100),
              walking_time_minutes |-> walking_time,
              time_to_departure_minutes |-> time_to_departure,
              message |-> "status"]

(* check_alert_status: the preconditions in the order of the code, then   *)
(* the metrics and the status.                                            *)
CheckAlertStatus(sid) ==
    IF sid # "s1" THEN Unavailable("Session not found")
    ELSE IF GetCurrentLocation(sid) = None
    THEN Unavailable("No location data available")
    ELSE IF GetGateLocationForSession(sid) = None
    THEN Unavailable("Gate information not available")
    ELSE IF ~session.segment
    THEN Unavailable("Flight information not available")
    ELSE LET distance == CalculateDistance(GetCurrentLocation(sid),
                                           GetGateLocationForSession(sid))
             walking_time == EstimateWalkingTime(distance, "elderly")
             time_to_departure == TimeToDeparture(session.departure, Clock)
         IN  [alert_status |-> ClassifyStatus(distance, walking_time,
                                              time_to_departure),
              distance_meters |-> RoundHalfEven(distance, 100),
              walking_time_minutes |-> walking_time,
              time_to_departure_minutes |-> time_to_departure,
              message |-> "status"]

(* get_location_metrics: the 'metrics' of check_alert_status.             *)
GetLocationMetrics(sid) == CheckAlertStatus(sid)

(* should_store of update_location: first fix, or not closer than the     *)
(* threshold to the newest one.                                           *)
ShouldStore(last_location, lat) ==
    \/ last_location = None
    \/ ~(CalculateDistance(last_location, lat) < Cm(MIN_MOVEMENT_THRESHOLD))

(* A handler that returned keeps, until its worker's next request, what   *)
(* the caller saw: the call, its arguments and its result.                *)
(* A service function returns: to nobody, or to the view that called it.  *)
Finish(rec, result) ==
    [rec EXCEPT !.pc = IF rec.view = "none" THEN "idle" ELSE "returned",
                !.result = result, !.row = NoRow,
                !.ctx = Idle.ctx, !.seen = 0]

(* update_location, to the read of the newest fix and the decision.       *)
UpdateLocationCall(w, caller, sid, lat) ==
    /\ LET rec == [caller EXCEPT !.op = "update_location", !.sid = sid,
                                 !.lat = lat, !.last = GetCurrentLocation(sid)]
       IN  wk' = [wk EXCEPT ![w] =
                    IF sid # "s1" THEN Finish(rec, "none")
                    ELSE IF ShouldStore(rec.last, lat)
                    THEN [rec EXCEPT !.pc = "store"]
                    ELSE Finish(rec, "none")]
    /\ UNCHANGED <<now, session, locations, alerts, calls, emails, ev>>

UpdateLocation(w, sid, lat) ==
    /\ wk[w].pc = "idle"
    /\ UpdateLocationCall(w, Idle, sid, lat)

(* update_location: PassengerLocation.objects.create and the return.      *)
UpdateLocationStore(w) ==
    /\ wk[w].pc = "store"
    /\ locations' = Append(locations, Quantize6(wk[w].lat))
    /\ wk' = [wk EXCEPT ![w] = Finish(wk[w], "stored")]
    /\ UNCHANGED <<now, session, alerts, calls, emails, ev>>

(* ----------------------- LocationAlertService ------------------------- *)
(* Mutant of Cooldown: the two windows exchanged.                         *)
CooldownSwapped(atype) ==
    IF atype = "urgent" THEN ALERT_COOLDOWN ELSE URGENT_COOLDOWN

Cooldown(atype) == IF atype = "urgent" THEN URGENT_COOLDOWN ELSE ALERT_COOLDOWN

(* Mutants of RecentAlert: timedelta(seconds=window), and created_at__gt. *)
RecentAlertSeconds(sid, atype, window) ==
    \E i \in 1..Len(alerts) :
        /\ alerts[i].session = sid
        /\ alerts[i].alert_type = atype
        /\ alerts[i].created_at >= Clock - window

RecentAlertStrict(sid, atype, window) ==
    \E i \in 1..Len(alerts) :
        /\ alerts[i].session = sid
        /\ alerts[i].alert_type = atype
        /\ alerts[i].created_at > Clock - Seconds(window)

(* Mutant of RecentAlert: forced alerts are passed over.                  *)
RecentAlertUnforced(sid, atype, window) ==
    \E i \in 1..Len(alerts) :
        /\ alerts[i].session = sid
        /\ alerts[i].alert_type = atype
        /\ ~alerts[i].forced
        /\ alerts[i].created_at >= Clock - Seconds(window)

(* Mutant of RecentAlert: the alerts of every session are searched.       *)
RecentAlertAnySession(sid, atype, window) ==
    \E i \in 1..Len(alerts) :
        /\ alerts[i].alert_type = atype
        /\ alerts[i].created_at >= Clock - Seconds(window)

(* session.location_alerts.filter(alert_type=atype,                       *)
(*     created_at__gte=now - timedelta(minutes=window)).first()           *)
RecentAlert(sid, atype, window) ==
    \E i \in 1..Len(alerts) :
        /\ alerts[i].session = sid
        /\ alerts[i].alert_type = atype
        /\ alerts[i].created_at >= Clock - Seconds(window)

(* Mutant of Dispatch: the voice call is placed before the cooldown is    *)
(* checked.                                                               *)
DispatchCallsFirst(w, rec, sid, atype, force) ==
    /\ wk' = [wk EXCEPT ![w] =
                LET r == [rec EXCEPT !.sid = sid, !.atype = atype,
                                     !.force = force]
                IN  IF sid # "s1" \/ ~session.reservation THEN Finish(r, "none")
                    ELSE IF ~force /\ RecentAlert(sid, atype, Cooldown(atype))
                    THEN Finish([r EXCEPT !.recent_alert = TRUE], "none")
                    ELSE [r EXCEPT !.pc = "create", !.ctx = session.context,
                                   !.seen = Len(alerts)]]
    /\ calls' = IF sid = "s1" /\ session.reservation /\ session.phone
                THEN calls + 1 ELSE calls
    /\ UNCHANGED <<now, session, locations, alerts, emails, ev>>

(* send_*_alert to its cooldown check: the session is loaded (and with it *)
(* its context), the reservation is tested, then the cooldown.            *)
Dispatch(w, rec, sid, atype, force) ==
    /\ wk' = [wk EXCEPT ![w] =
                LET r == [rec EXCEPT !.sid = sid, !.atype = atype,
                                     !.force = force]
                IN  IF sid # "s1" \/ ~session.reservation THEN Finish(r, "none")
                    ELSE IF ~force /\ RecentAlert(sid, atype, Cooldown(atype))
                    THEN Finish([r EXCEPT !.recent_alert = TRUE], "none")
                    ELSE [r EXCEPT !.pc = "create", !.ctx = session.context,
                                   !.seen = Len(alerts)]]
    /\ UNCHANGED <<now, session, locations, alerts, calls, emails, ev>>

SendRunningLateAlert(w, sid, force) ==
    /\ wk[w].pc = "idle"
    /\ Dispatch(w, [Idle EXCEPT !.op = "send_running_late_alert"], sid,
                "running_late", force)

SendUrgentAlert(w, sid, force) ==
    /\ wk[w].pc = "idle"
    /\ Dispatch(w, [Idle EXCEPT !.op = "send_urgent_alert"], sid, "urgent",
                force)

(* Mutant of Route: the two dispatchers exchanged.                        *)
RouteSwapped(alert_status) ==
    IF alert_status = "urgent" THEN "running_late"
    ELSE IF alert_status = "warning" THEN "urgent"
    ELSE "none"

(* What check_and_send_alerts calls for a status.                         *)
Route(alert_status) ==
    IF alert_status = "urgent" THEN "urgent"
    ELSE IF alert_status = "warning" THEN "running_late"
    ELSE "none"

(* check_and_send_alerts, to the call of the dispatcher it routes to.     *)
CheckAndSendAlertsCall(w, caller, sid) ==
    /\ LET alert_status == GetLocationMetrics(sid).alert_status
           rec == [caller EXCEPT !.op = "check_and_send_alerts", !.sid = sid,
                               !.status = alert_status,
                               !.atype = Route(alert_status)]
       IN  wk' = [wk EXCEPT ![w] =
                    IF rec.atype = "none" THEN Finish(rec, "none")
                    ELSE [rec EXCEPT !.pc = "cooldown"]]
    /\ UNCHANGED <<now, session, locations, alerts, calls, emails, ev>>

CheckAndSendAlerts(w, sid) ==
    /\ wk[w].pc = "idle"
    /\ CheckAndSendAlertsCall(w, Idle, sid)

(* The dispatcher check_and_send_alerts called, with force=False.         *)
CooldownCheck(w) ==
    /\ wk[w].pc = "cooldown"
    /\ Dispatch(w, wk[w], wk[w].sid, wk[w].atype, FALSE)

(* _build_alert_message / _build_urgent_message: the values they format.  *)
BuildMessage(atype, walking_time, time_to_departure) ==
    [kind |-> atype, walking_time |-> walking_time,
     time_to_departure |-> time_to_departure]

NewAlert(sid, atype, metrics, forced, seen) ==
    [session |-> sid, alert_type |-> atype,
     message |-> BuildMessage(atype, metrics.walking_time_minutes,
                              metrics.time_to_departure_minutes),
     distance_to_gate |-> metrics.distance_meters,
     estimated_walking_time |-> metrics.walking_time_minutes,
     time_to_departure |-> metrics.time_to_departure_minutes,
     acknowledged |-> FALSE, voice_call_sent |-> FALSE, email_sent |-> FALSE,
     created_at |-> Clock, forced |-> forced, seen |-> seen]

(* send_*_alert from get_location_metrics to LocationAlert.objects.create.*)
(* _build_urgent_message computes time_to_departure - 15, a TypeError on  *)
(* None: the urgent dispatch ends raising before it creates the row.      *)
CreateAlert(w) ==
    /\ wk[w].pc = "create"
    /\ LET r == wk[w]
           metrics == GetLocationMetrics(r.sid)
           row == NewAlert(r.sid, r.atype, metrics, r.force, r.seen)
       IN  IF ~session.segment
           THEN /\ wk' = [wk EXCEPT ![w] = Finish(r, "none")]
                /\ UNCHANGED alerts
           ELSE IF r.atype = "urgent" /\ metrics.time_to_departure_minutes = None
           THEN /\ wk' = [wk EXCEPT ![w] = Finish(r, "raised")]
                /\ UNCHANGED alerts
           ELSE /\ alerts' = Append(alerts, row)
                /\ wk' = [wk EXCEPT ![w] =
                            [r EXCEPT !.pc = "notify", !.row = row,
                                      !.alert_id = Len(alerts) + 1,
                                      !.r_voice = IF r.atype = "urgent"
                                                  THEN "absent" ELSE "False",
                                      !.r_email = IF r.atype = "urgent"
                                                  THEN "absent" ELSE "False"]]
    /\ UNCHANGED <<now, session, locations, calls, emails, ev>>

(* reminder_service.create_reminder_call: not called without a phone      *)
(* ("skipped"), else it returns a call or None.                           *)
CallResults == IF session.phone THEN {"sent", "failed"} ELSE {"skipped"}

(* _get_helper_email and _send_helper_email, of send_running_late_alert   *)
(* only: no helper_email in the context the handler loaded ("skipped"),   *)
(* Resend not configured, the send raising, or sent. Without metrics the  *)
(* body's int(distance) raises inside the try block: never sent.          *)
EmailResults(r) ==
    IF r.atype = "running_late" /\ r.ctx.helper_email
    THEN IF r.row.distance_to_gate = None THEN {"unconfigured", "failed"}
         ELSE {"unconfigured", "failed", "sent"}
    ELSE {"skipped"}

(* The two channels, one after the other; neither reads or writes the     *)
(* database, so no other handler can tell them apart in time.             *)
Notify(w) ==
    /\ wk[w].pc = "notify"
    /\ \E call_result \in CallResults, email_result \in EmailResults(wk[w]) :
         /\ calls' = IF call_result = "skipped" THEN calls ELSE calls + 1
         /\ emails' = IF email_result \in {"skipped", "unconfigured"}
                      THEN emails ELSE emails + 1
         /\ wk' = [wk EXCEPT ![w] =
               [wk[w] EXCEPT
                  !.pc = "save",
                  !.call_result = call_result,
                  !.email_result = email_result,
                  !.row = [@ EXCEPT
                      !.voice_call_sent = (call_result = "sent"),
                      !.email_sent = (email_result = "sent")],
                  !.r_voice = IF call_result = "sent" THEN "True" ELSE @,
                  !.r_email = IF email_result = "sent" THEN "True" ELSE @]]
    /\ UNCHANGED <<now, session, locations, alerts, ev>>

Summary(row) ==
    [type |-> row.alert_type, message |-> row.message,
     distance_meters |-> row.distance_to_gate]

(* alert.save() writes every column of the handler's copy of the row;     *)
(* send_running_late_alert also sets context['location_alert'] on its     *)
(* copy of the session and saves that whole row.                          *)
SaveAlert(w) ==
    /\ wk[w].pc = "save"
    /\ alerts' = [alerts EXCEPT ![wk[w].alert_id] = wk[w].row]
    /\ session' = IF wk[w].atype = "urgent" THEN session
                  ELSE [session EXCEPT !.context =
                          [wk[w].ctx EXCEPT !.location_alert = Summary(wk[w].row)]]
    /\ wk' = [wk EXCEPT ![w] = Finish(wk[w], "dict")]
    /\ UNCHANGED <<now, locations, calls, emails, ev>>

(* acknowledge_alert: LocationAlert.objects.get                           *)
AcknowledgeAlertCall(w, caller, alert_id) ==
    /\ LET rec == [caller EXCEPT !.op = "acknowledge_alert",
                                 !.alert_id = alert_id]
       IN  wk' = [wk EXCEPT ![w] =
                    IF alert_id \in 1..Len(alerts)
                    THEN [rec EXCEPT !.pc = "ack_save", !.row = alerts[alert_id]]
                    ELSE Finish(rec, "False")]
    /\ UNCHANGED <<now, session, locations, alerts, calls, emails, ev>>

AcknowledgeAlert(w, alert_id) ==
    /\ wk[w].pc = "idle"
    /\ AcknowledgeAlertCall(w, Idle, alert_id)

AcknowledgeSaveToggle(w) ==
    /\ wk[w].pc = "ack_save"
    /\ alerts' = [alerts EXCEPT ![wk[w].alert_id] =
                    [wk[w].row EXCEPT !.acknowledged = ~@]]
    /\ wk' = [wk EXCEPT ![w] = Finish(wk[w], "True")]
    /\ UNCHANGED <<now, session, locations, calls, emails, ev>>

(* acknowledge_alert: alert.acknowledged = True; alert.save()             *)
AcknowledgeSave(w) ==
    /\ wk[w].pc = "ack_save"
    /\ alerts' = [alerts EXCEPT ![wk[w].alert_id] =
                    [wk[w].row EXCEPT !.acknowledged = TRUE]]
    /\ wk' = [wk EXCEPT ![w] = Finish(wk[w], "True")]
    /\ UNCHANGED <<now, session, locations, calls, emails, ev>>

Tick(max) ==
    /\ now < max
    /\ now' = now + 1
    /\ UNCHANGED <<session, locations, alerts, calls, emails, wk, ev>>

(* ------------------------------- views -------------------------------- *)
(* views.update_location with a valid body: location_service.             *)
(* update_location(...)                                                   *)
ViewUpdateLocation(w, sid, lat) ==
    /\ wk[w].pc = "idle"
    /\ UpdateLocationCall(w, [Idle EXCEPT !.view = "update_location"], sid, lat)

(* views.update_location: if location: check_and_send_alerts(session_id)  *)
ViewCheckAlerts(w) ==
    /\ wk[w].pc = "returned"
    /\ wk[w].view = "update_location"
    /\ wk[w].op = "update_location"
    /\ wk[w].result = "stored"
    /\ CheckAndSendAlertsCall(w, [Idle EXCEPT !.view = "update_location",
                                              !.stored = TRUE,
                                              !.lat = wk[w].lat,
                                              !.last = wk[w].last],
                              wk[w].sid)

(* views.trigger_location_alert with a valid body: the dispatcher of the  *)
(* requested type, force=True.                                            *)
ViewTrigger(w, sid, alert_type) ==
    /\ wk[w].pc = "idle"
    /\ Dispatch(w, [Idle EXCEPT !.view = "trigger_location_alert",
                                !.op = IF alert_type = "urgent"
                                       THEN "send_urgent_alert"
                                       ELSE "send_running_late_alert"],
                sid, alert_type, TRUE)

(* views.acknowledge_alert                                                *)
ViewAcknowledge(w, alert_id) ==
    /\ wk[w].pc = "idle"
    /\ AcknowledgeAlertCall(w, [Idle EXCEPT !.view = "acknowledge_alert"],
                            alert_id)

(* The status of the response a view builds from what its service call    *)
(* returned; an exception that escapes the view is a 500.                 *)
ResponseStatus(rec) ==
    IF rec.result = "raised" THEN 500
    ELSE IF rec.view = "trigger_location_alert"
    THEN (IF rec.result = "dict" THEN 200 ELSE 400)
    ELSE IF rec.view = "acknowledge_alert"
    THEN (IF rec.result = "True" THEN 200 ELSE 404)
    ELSE 200

ViewRespondAlways(w) ==
    /\ wk[w].pc = "returned"
    /\ ~( /\ wk[w].view = "update_location"
          /\ wk[w].op = "update_location"
          /\ wk[w].result = "stored" )
    /\ wk' = [wk EXCEPT ![w] =
                [wk[w] EXCEPT
                   !.pc = "idle",
                   !.http = ResponseStatus(wk[w]),
                   !.alert_triggered =
                       /\ wk[w].view = "update_location"
                       /\ wk[w].op = "check_and_send_alerts",
                   !.metrics = IF wk[w].view = "update_location"
                               THEN GetLocationMetrics(wk[w].sid) ELSE @]]
    /\ UNCHANGED <<now, session, locations, alerts, calls, emails, ev>>

(* The view's Response: update_location reads get_location_metrics and    *)
(* reports alert_triggered = alert_result is not None.                    *)
ViewRespond(w) ==
    /\ wk[w].pc = "returned"
    /\ ~( /\ wk[w].view = "update_location"
          /\ wk[w].op = "update_location"
          /\ wk[w].result = "stored" )
    /\ wk' = [wk EXCEPT ![w] =
                [wk[w] EXCEPT
                   !.pc = "idle",
                   !.http = ResponseStatus(wk[w]),
                   !.alert_triggered =
                       /\ wk[w].view = "update_location"
                       /\ wk[w].op = "check_and_send_alerts"
                       /\ wk[w].result = "dict",
                   !.metrics = IF wk[w].view = "update_location"
                               THEN GetLocationMetrics(wk[w].sid) ELSE @]]
    /\ UNCHANGED <<now, session, locations, alerts, calls, emails, ev>>

(* views.get_location_history and views.get_location_alerts: 404 for an   *)
(* unknown session, else the rows.                                        *)
ViewQuery(w, view, sid) ==
    /\ wk[w].pc = "idle"
    /\ wk' = [wk EXCEPT ![w] =
                [Idle EXCEPT !.view = view, !.sid = sid,
                             !.http = IF sid = "s1" THEN 200 ELSE 404]]
    /\ UNCHANGED <<now, session, locations, alerts, calls, emails, ev>>

PendingAlertOldest(sid) ==
    LET pending == {i \in 1..Len(alerts) : /\ alerts[i].session = sid
                                           /\ ~alerts[i].acknowledged}
    IN  IF sid # "s1" \/ pending = {} THEN 0
        ELSE CHOOSE i \in pending : \A j \in pending : i <= j

(* get_location_metrics, 'alert': session.location_alerts.filter(         *)
(* acknowledged=False).first(), in the model's ordering -created_at; rows *)
(* are kept in the order of their creation. 0 is None.                    *)
PendingAlert(sid) ==
    LET pending == {i \in 1..Len(alerts) : /\ alerts[i].session = sid
                                           /\ ~alerts[i].acknowledged}
    IN  IF sid # "s1" \/ pending = {} THEN 0
        ELSE CHOOSE i \in pending :
                 \A j \in pending :
                     \/ alerts[j].created_at < alerts[i].created_at
                     \/ /\ alerts[j].created_at = alerts[i].created_at
                        /\ j <= i

(* A call of get_location_metrics by the dashboard, its result kept.      *)
GetMetrics(w, sid) ==
    /\ wk[w].pc = "idle"
    /\ wk' = [wk EXCEPT ![w] =
                Finish([Idle EXCEPT !.op = "get_location_metrics",
                                    !.sid = sid,
                                    !.metrics = GetLocationMetrics(sid),
                                    !.alert = PendingAlert(sid)],
                       "dict")]
    /\ UNCHANGED <<now, session, locations, alerts, calls, emails, ev>>

(* A call of check_alert_status by itself, its result kept.               *)
CheckStatus(w, sid) ==
    /\ wk[w].pc = "idle"
    /\ wk' = [wk EXCEPT ![w] =
                Finish([Idle EXCEPT !.op = "check_alert_status", !.sid = sid,
                                    !.metrics = CheckAlertStatus(sid)],
                       "dict")]
    /\ UNCHANGED <<now, session, locations, alerts, calls, emails, ev>>

(* -------------------------- specifications ---------------------------- *)
(* A run creates at most max rows: a handler that would go on to create  *)
(* a row is admitted only while there is room for it, counting the        *)
(* handlers already on their way to create one.                           *)
Creating == Cardinality({w \in RaceWorkers : wk[w].pc \in {"cooldown", "create"}})
Storing == Cardinality({w \in RaceWorkers : wk[w].pc = "store"})
AlertRoom(w, max) ==
    Len(alerts) + Creating < max \/ wk'[w].pc \in {"idle", "returned"}
FixRoom(w, max) ==
    Len(locations) + Storing < max \/ wk'[w].pc \in {"idle", "returned"}

InitDB ==
    /\ now = 0
    /\ alerts = <<>>
    /\ calls = 0
    /\ emails = 0
    /\ wk = [w \in RaceWorkers |-> Idle]
    /\ ev = EvIdle

InitialLocations == {<<>>} \cup {<<p>> : p \in StoredPositions}

(* What a dispatching handler does after its first step.                  *)
DispatchSteps(w) ==
    \/ CooldownCheck(w)
    \/ CreateAlert(w)
    \/ Notify(w)
    \/ SaveAlert(w)

(* Spec: concurrent handlers dispatching and acknowledging.               *)
Init ==
    /\ InitDB
    /\ session = SessionShape(TRUE, TRUE, TRUE, TRUE, FALSE)
    /\ locations = <<60005>>

Next ==
    \/ \E w \in Workers, force \in BOOLEAN :
          SendRunningLateAlert(w, "s1", force) /\ AlertRoom(w, MaxAlerts)
    \/ \E w \in Workers, force \in BOOLEAN :
          SendUrgentAlert(w, "s1", force) /\ AlertRoom(w, MaxAlerts)
    \/ \E w \in Workers : CheckAndSendAlerts(w, "s1") /\ AlertRoom(w, MaxAlerts)
    \/ \E w \in Workers : DispatchSteps(w)
    \/ \E w \in Workers, alert_id \in 1..(Len(alerts) + 1) :
          AcknowledgeAlert(w, alert_id)
    \/ \E w \in Workers : AcknowledgeSave(w)
    \/ Tick(ConcTicks)

Spec == Init /\ [][Next]_vars

(* SpecSeq: one dispatching handler at a time, every shape of session.    *)
InitSeq ==
    /\ InitDB
    /\ \/ /\ session = SessionShape(TRUE, TRUE, TRUE, TRUE, TRUE)
          /\ locations \in InitialLocations
       \/ /\ session \in SessionShapes
          /\ locations = <<60005>>

NextSeq ==
    \/ \E sid \in SessionIds, force \in BOOLEAN :
          SendRunningLateAlert(1, sid, force) /\ AlertRoom(1, MaxAlerts)
    \/ \E sid \in SessionIds, force \in BOOLEAN :
          SendUrgentAlert(1, sid, force) /\ AlertRoom(1, MaxAlerts)
    \/ \E sid \in SessionIds : CheckAndSendAlerts(1, sid) /\ AlertRoom(1, MaxAlerts)
    \/ DispatchSteps(1)
    \/ Tick(MaxTicks)

SpecSeq == InitSeq /\ [][NextSeq]_vars

(* SpecRace: one more handler, each serving check_and_send_alerts.         *)
InitRace ==
    /\ InitDB
    /\ session = SessionShape(TRUE, TRUE, TRUE, FALSE, FALSE)
    /\ locations = <<60005>>

NextRace ==
    \/ \E w \in RaceWorkers :
          CheckAndSendAlerts(w, "s1") /\ AlertRoom(w, MaxAlerts + 1)
    \/ \E w \in RaceWorkers : DispatchSteps(w)
    \/ Tick(MaxTicks)

SpecRace == InitRace /\ [][NextRace]_vars

(* SpecLoc: concurrent handlers of update_location; SpecLocSeq: one.      *)
InitLoc ==
    /\ InitDB
    /\ session = SessionShape(TRUE, TRUE, TRUE, TRUE, TRUE)
    /\ locations \in {<<>>, <<20009>>}

NextLoc ==
    \/ \E w \in Workers, sid \in SessionIds, lat \in InputPositions :
          UpdateLocation(w, sid, lat) /\ FixRoom(w, MaxFixes + 1)
    \/ \E w \in Workers : UpdateLocationStore(w)

SpecLoc == InitLoc /\ [][NextLoc]_vars

NextLocSeq ==
    \/ \E sid \in SessionIds, lat \in InputPositions :
          UpdateLocation(1, sid, lat) /\ FixRoom(1, MaxFixes + 1)
    \/ UpdateLocationStore(1)

SpecLocSeq == InitLoc /\ [][NextLocSeq]_vars

(* The serializer admits coordinates of at most six decimal places: fixes *)
(* on the grid, 600.05 m and 1300.09 m from the gate.                     *)
ViewPositions == {60005, 130009}

(* SpecView: the views of the location endpoints, one request at a time. *)
InitView ==
    /\ InitDB
    /\ \/ /\ session = SessionShape(TRUE, TRUE, TRUE, TRUE, TRUE)
          /\ locations \in {<<>>, <<60005>>, <<130009>>}
       \/ /\ session \in SessionShapes
          /\ locations = <<60005>>

NextView ==
    \/ \E sid \in SessionIds, lat \in ViewPositions :
          ViewUpdateLocation(1, sid, lat) /\ FixRoom(1, MaxFixes)
    \/ UpdateLocationStore(1)
    \/ ViewCheckAlerts(1) /\ AlertRoom(1, MaxAlerts)
    \/ \E sid \in SessionIds, alert_type \in AlertTypes :
          ViewTrigger(1, sid, alert_type) /\ AlertRoom(1, MaxAlerts)
    \/ DispatchSteps(1)
    \/ ViewRespond(1)
    \/ \E sid \in SessionIds,
          view \in {"get_location_history", "get_location_alerts"} :
          ViewQuery(1, view, sid)
    \/ Tick(ConcTicks)

SpecView == InitView /\ [][NextView]_vars

(* SpecUpdate: the location-update endpoint alone, over a longer time.   *)
NextUpdate ==
    \/ \E sid \in SessionIds, lat \in ViewPositions :
          ViewUpdateLocation(1, sid, lat) /\ FixRoom(1, MaxFixes + 1)
    \/ UpdateLocationStore(1)
    \/ ViewCheckAlerts(1) /\ AlertRoom(1, MaxAlerts)
    \/ DispatchSteps(1)
    \/ ViewRespond(1)
    \/ Tick(MaxTicks)

SpecUpdate == InitView /\ [][NextUpdate]_vars

(* SpecLive: the location-update endpoint with a client that keeps       *)
(* sending fixes, a server that finishes every request it took, and a     *)
(* clock that advances.  A request is taken only when there is room for   *)
(* the rows it may write.                                                 *)
ClientSends ==
    \E sid \in SessionIds, lat \in ViewPositions :
       /\ ViewUpdateLocation(1, sid, lat)
       /\ FixRoom(1, MaxFixes + 1)
       /\ AlertRoom(1, MaxAlerts)

ServerStep ==
    \/ UpdateLocationStore(1)
    \/ ViewCheckAlerts(1)
    \/ DispatchSteps(1)
    \/ ViewRespond(1)

NextLive == ClientSends \/ ServerStep \/ Tick(MaxTicks)

SpecLive ==
    /\ InitView
    /\ [][NextLive]_vars
    /\ WF_vars(ClientSends \/ ServerStep)
    /\ WF_vars(Tick(MaxTicks))

(* SpecMix: location-update requests of one session handled at the same  *)
(* time, each storing its fix and then checking for alerts.               *)
InitMix ==
    /\ InitDB
    /\ session = SessionShape(TRUE, TRUE, TRUE, TRUE, FALSE)
    /\ locations \in {<<>>, <<60005>>}

NextMix ==
    \/ \E w \in Workers, lat \in ViewPositions :
          ViewUpdateLocation(w, "s1", lat) /\ FixRoom(w, MaxFixes + 1)
    \/ \E w \in Workers : UpdateLocationStore(w)
    \/ \E w \in Workers : ViewCheckAlerts(w) /\ AlertRoom(w, MaxAlerts)
    \/ \E w \in Workers : DispatchSteps(w)
    \/ \E w \in Workers : ViewRespond(w)
    \/ Tick(ConcTicks)

SpecMix == InitMix /\ [][NextMix]_vars

(* SpecScope: dispatches for session "s1", one at a time, while the       *)
(* LocationAlert table also holds an alert of another session.            *)
OtherSessionAlert(atype) ==
    [session |-> "s2", alert_type |-> atype,
     message |-> BuildMessage(atype, 12, 40),
     distance_to_gate |-> 600, estimated_walking_time |-> 12,
     time_to_departure |-> 40,
     acknowledged |-> FALSE, voice_call_sent |-> FALSE, email_sent |-> FALSE,
     created_at |-> 0, forced |-> FALSE, seen |-> 0]

InitScope ==
    /\ now = 0
    /\ alerts \in {<<OtherSessionAlert(atype)>> : atype \in AlertTypes}
    /\ calls = 0
    /\ emails = 0
    /\ wk = [w \in RaceWorkers |-> Idle]
    /\ ev = EvIdle
    /\ session = SessionShape(TRUE, TRUE, TRUE, TRUE, FALSE)
    /\ locations \in {<<60005>>, <<130009>>}

NextScope ==
    \/ \E force \in BOOLEAN :
          SendRunningLateAlert(1, "s1", force) /\ AlertRoom(1, MaxAlerts + 1)
    \/ \E force \in BOOLEAN :
          SendUrgentAlert(1, "s1", force) /\ AlertRoom(1, MaxAlerts + 1)
    \/ CheckAndSendAlerts(1, "s1") /\ AlertRoom(1, MaxAlerts + 1)
    \/ DispatchSteps(1)
    \/ Tick(MaxTicks)

SpecScope == InitScope /\ [][NextScope]_vars

(* views.helper_request_wheelchair: the session is loaded and handed to   *)
(* family_action_service.execute_request_wheelchair.                      *)
HelperRequestWheelchair(w) ==
    /\ wk[w].pc = "idle"
    /\ LET rec == [Idle EXCEPT !.view = "helper_request_wheelchair",
                               !.op = "execute_request_wheelchair",
                               !.sid = "s1", !.ctx = session.context]
       IN  wk' = [wk EXCEPT ![w] =
                    IF ~session.reservation THEN Finish(rec, "failed")
                    ELSE [rec EXCEPT !.pc = "wheelchair"]]
    /\ UNCHANGED <<now, session, locations, alerts, calls, emails, ev>>

(* execute_request_wheelchair: context['wheelchair_assistance'] is set on *)
(* the handler's copy of the session and that whole row is saved.         *)
ExecuteRequestWheelchair(w) ==
    /\ wk[w].pc = "wheelchair"
    /\ session' = [session EXCEPT !.context =
                     [wk[w].ctx EXCEPT !.wheelchair_assistance = TRUE]]
    /\ wk' = [wk EXCEPT ![w] = Finish(wk[w], "dict")]
    /\ UNCHANGED <<now, locations, alerts, calls, emails, ev>>

(* SpecFrame: a running_late dispatch and a helper's wheelchair request   *)
(* for the same session, handled at the same time.                        *)
InitFrame ==
    /\ InitDB
    /\ session = SessionShape(TRUE, TRUE, TRUE, TRUE, FALSE)
    /\ locations = <<60005>>

NextFrame ==
    \/ \E force \in BOOLEAN :
          SendRunningLateAlert(1, "s1", force) /\ AlertRoom(1, MaxAlerts)
    \/ CreateAlert(1)
    \/ Notify(1)
    \/ SaveAlert(1)
    \/ HelperRequestWheelchair(2)
    \/ ExecuteRequestWheelchair(2)
    \/ ViewRespond(2)
    \/ Tick(ConcTicks)

SpecFrame == InitFrame /\ [][NextFrame]_vars

(* SpecAck: alerts made by the manual trigger and acknowledged, by the    *)
(* view and by acknowledge_alert called directly, one call at a time.     *)
InitAck ==
    /\ InitDB
    /\ session = SessionShape(TRUE, TRUE, TRUE, TRUE, TRUE)
    /\ locations \in {<<>>, <<60005>>}

NextAck ==
    \/ \E alert_type \in AlertTypes :
          ViewTrigger(1, "s1", alert_type) /\ AlertRoom(1, MaxAlerts)
    \/ CreateAlert(1)
    \/ Notify(1)
    \/ SaveAlert(1)
    \/ \E alert_id \in 1..(Len(alerts) + 1) : ViewAcknowledge(1, alert_id)
    \/ \E alert_id \in 1..(Len(alerts) + 1) : AcknowledgeAlert(1, alert_id)
    \/ AcknowledgeSave(1)
    \/ ViewRespond(1)
    \/ \E sid \in SessionIds : GetMetrics(1, sid)
    \/ Tick(ConcTicks)

SpecAck == InitAck /\ [][NextAck]_vars

(* SpecStatus: check_alert_status over every shape of session and fix.   *)
InitStatus ==
    /\ InitDB
    /\ session \in SessionShapes
    /\ locations \in InitialLocations

NextStatus ==
    \/ \E sid \in SessionIds : CheckStatus(1, sid)
    \/ Tick(MaxTicks)

SpecStatus == InitStatus /\ [][NextStatus]_vars

(* SpecEval: the pure functions of the evaluator on drawn inputs: two     *)
(* distances to the gate (cm) and the seconds left to departure.          *)
EvalDistances ==
    {k * 2500 : k \in 0..MaxEvalSteps} \cup {Cm(100) - 1, Cm(100) + 1}
EvalSeconds == {k * 150 : k \in (-2)..MaxEvalTicks}

InitEval ==
    /\ now = 0
    /\ session = SessionShape(TRUE, TRUE, TRUE, TRUE, TRUE)
    /\ locations = <<>>
    /\ alerts = <<>>
    /\ calls = 0
    /\ emails = 0
    /\ wk = [w \in RaceWorkers |-> Idle]
    /\ ev \in {[EvIdle EXCEPT !.d1 = a, !.d2 = b, !.secs = t] :
                 a \in EvalDistances, b \in EvalDistances, t \in EvalSeconds}

(* check_alert_status from "Calculate metrics" on, for each distance.     *)
Evaluate ==
    /\ ~ev.done
    /\ LET ttd == TimeToDeparture(ev.secs, 0)
           wt1 == EstimateWalkingTime(ev.d1, "elderly")
           wt2 == EstimateWalkingTime(ev.d2, "elderly")
       IN  ev' = [ev EXCEPT !.done = TRUE, !.ttd = ttd,
                            !.wt1 = wt1, !.wt2 = wt2,
                            !.s1 = ClassifyStatus(ev.d1, wt1, ttd),
                            !.s2 = ClassifyStatus(ev.d2, wt2, ttd)]
    /\ UNCHANGED <<now, session, locations, alerts, calls, emails, wk>>

SpecEval == InitEval /\ [][Evaluate]_vars

(* SpecWalk: estimate_walking_time for two distances at every pace, one   *)
(* of them no key of WALKING_SPEEDS.                                      *)
Paces == {"normal", "elderly", "rushed", "sprint"}

InitWalk ==
    /\ now = 0
    /\ session = SessionShape(TRUE, TRUE, TRUE, TRUE, TRUE)
    /\ locations = <<>>
    /\ alerts = <<>>
    /\ calls = 0
    /\ emails = 0
    /\ wk = [w \in RaceWorkers |-> Idle]
    /\ ev \in {[EvIdle EXCEPT !.d1 = a, !.d2 = b, !.pace = p] :
                 a \in EvalDistances, b \in EvalDistances, p \in Paces}

Walk ==
    /\ ~ev.done
    /\ ev' = [ev EXCEPT !.done = TRUE,
                        !.wt1 = EstimateWalkingTime(ev.d1, ev.pace),
                        !.wt2 = EstimateWalkingTime(ev.d2, ev.pace)]
    /\ UNCHANGED <<now, session, locations, alerts, calls, emails, wk>>

SpecWalk == InitWalk /\ [][Walk]_vars

(* SpecClock: check_alert_status evaluated again and again for one fix    *)
(* while the departure comes nearer and passes; ev.secs is                *)
(* departure_time - now, ev.s2 the latest status and ev.s1 the one before.*)
InitClock ==
    /\ now = 0
    /\ session = SessionShape(TRUE, TRUE, TRUE, TRUE, TRUE)
    /\ locations = <<>>
    /\ alerts = <<>>
    /\ calls = 0
    /\ emails = 0
    /\ wk = [w \in RaceWorkers |-> Idle]
    /\ ev \in {[EvIdle EXCEPT !.d1 = a, !.d2 = a, !.secs = MaxEvalTicks * 150] :
                 a \in EvalDistances}

Elapse ==
    /\ ev.secs - 150 \in EvalSeconds
    /\ ev' = [ev EXCEPT !.secs = @ - 150]
    /\ UNCHANGED <<now, session, locations, alerts, calls, emails, wk>>

Reevaluate ==
    /\ LET ttd == TimeToDeparture(ev.secs, 0)
           wt == EstimateWalkingTime(ev.d1, "elderly")
       IN  ev' = [ev EXCEPT !.done = TRUE, !.ttd = ttd,
                            !.wt1 = wt, !.wt2 = wt,
                            !.s1 = ev.s2,
                            !.s2 = ClassifyStatus(ev.d1, wt, ttd)]
    /\ UNCHANGED <<now, session, locations, alerts, calls, emails, wk>>

NextClock == Elapse \/ Reevaluate

SpecClock == InitClock /\ [][NextClock]_vars

(* ------------------------------- claims ------------------------------- *)
Rows == 1..Len(alerts)
DispatchOps ==
    {"send_running_late_alert", "send_urgent_alert", "check_and_send_alerts"}
(* Worker w takes a step of a handler.                                     *)
Steps(w) == wk'[w] # wk[w]
DBUnchanged == UNCHANGED <<session, locations, alerts, calls, emails>>

(* C1: for a session with a reservation and a flight segment, a call of    *)
(* sendRunningLateAlert with force=false made less than 10 minutes after a *)
(* running_late alert was created returns null and persists nothing; with  *)
(* force=true the call proceeds and persists one more running_late alert.  *)
C1_CooldownSuppression ==
    [][/\ ( /\ wk[1].pc = "idle"
            /\ Steps(1)
            /\ wk'[1].op = "send_running_late_alert"
            /\ wk'[1].sid = "s1"
            /\ session.reservation /\ session.segment )
          => IF wk'[1].force THEN wk'[1].pc = "create" /\ alerts' = alerts
             ELSE (\E i \in Rows : /\ alerts[i].alert_type = "running_late"
                                   /\ Clock - alerts[i].created_at < 600)
                  => /\ wk'[1].pc = "idle"
                     /\ wk'[1].result = "none"
                     /\ alerts' = alerts
       /\ ( /\ wk[1].pc = "create"
            /\ Steps(1)
            /\ wk[1].op = "send_running_late_alert"
            /\ session.segment )
          => /\ Len(alerts') = Len(alerts) + 1
             /\ alerts'[Len(alerts')].alert_type = "running_late"
             /\ \A i \in Rows : alerts'[i] = alerts[i]
      ]_vars

(* C1 witness: a forced running_late alert made less than 10 minutes after *)
(* the first one, and then an unforced call that the cooldown suppressed.  *)
C1_Witness ==
    /\ Len(alerts) = 2
    /\ alerts[1].alert_type = "running_late"
    /\ alerts[2].alert_type = "running_late"
    /\ alerts[2].forced
    /\ alerts[2].created_at - alerts[1].created_at < 600
    /\ wk[1].pc = "idle"
    /\ wk[1].op = "send_running_late_alert"
    /\ ~wk[1].force
    /\ wk[1].recent_alert
    /\ wk[1].result = "none"

(* The rows of one type created inside the cooldown window that starts     *)
(* with row i.                                                             *)
InWindow(i) ==
    {j \in Rows : /\ alerts[j].alert_type = alerts[i].alert_type
                  /\ alerts[j].session = alerts[i].session
                  /\ alerts[j].created_at >= alerts[i].created_at
                  /\ alerts[j].created_at - alerts[i].created_at
                       < Seconds(Cooldown(alerts[i].alert_type))}

(* C2 as claimed: under concurrent unforced dispatches at most two rows of *)
(* one type are created within one cooldown window.                        *)
C2_AtMostOneDuplicate == \A i \in Rows : Cardinality(InWindow(i)) <= 2

(* C2 amended: a row created within the cooldown window of an earlier row  *)
(* of its type comes from a dispatch whose cooldown check ran before that  *)
(* earlier row existed; the rows in a window are bounded by the number of  *)
(* dispatches in flight at once, not by two.                               *)
C2_DuplicatesOverlap ==
    \A i \in Rows : \A j \in Rows :
        ( /\ i < j
          /\ alerts[j].alert_type = alerts[i].alert_type
          /\ ~alerts[j].forced
          /\ alerts[j].created_at - alerts[i].created_at
               <= Seconds(IF alerts[i].alert_type = "urgent" THEN 5 ELSE 10) )
        => alerts[j].seen < i

(* C2 witness: three rows of one type inside one window.                   *)
C2_Witness == \E i \in Rows : Cardinality(InWindow(i)) = 3

(* C3: a LocationAlert row is never deleted, only acknowledged,            *)
(* voice_call_sent and email_sent ever change, and each of them only from  *)
(* false to true.                                                          *)
C3_RowsMonotone ==
    [][\A i \in Rows :
          /\ i <= Len(alerts')
          /\ [alerts'[i] EXCEPT !.acknowledged = FALSE,
                                !.voice_call_sent = FALSE,
                                !.email_sent = FALSE]
               = [alerts[i] EXCEPT !.acknowledged = FALSE,
                                   !.voice_call_sent = FALSE,
                                   !.email_sent = FALSE]
          /\ alerts[i].acknowledged => alerts'[i].acknowledged
          /\ alerts[i].voice_call_sent => alerts'[i].voice_call_sent
          /\ alerts[i].email_sent => alerts'[i].email_sent
      ]_vars

(* C4: every stored fix but the first lies at least 50 m from the fix      *)
(* stored before it.                                                       *)
C4_FixSpacing ==
    \A i \in 2..Len(locations) :
        CalculateDistance(locations[i - 1], locations[i]) >= Cm(50)

(* C5: update_location for an existing session stores and returns a fix    *)
(* exactly when it is the first fix or more than 50 m from the newest      *)
(* stored fix; otherwise it returns null.                                  *)
C5_StoresOnlyBeyondThreshold ==
    ( /\ wk[1].pc = "idle"
      /\ wk[1].op = "update_location"
      /\ wk[1].sid = "s1" )
    => ( wk[1].result = "stored"
         <=> \/ wk[1].last = None
             \/ CalculateDistance(wk[1].last, wk[1].lat) > Cm(50) )

(* C5 witness: a fix exactly 50 m from the newest stored fix was stored.   *)
C5_Witness ==
    /\ wk[1].pc = "idle"
    /\ wk[1].op = "update_location"
    /\ wk[1].last # None
    /\ CalculateDistance(wk[1].last, wk[1].lat) = 5000
    /\ wk[1].result = "stored"

(* C6: check_alert_status classifies by the first rule that matches, in    *)
(* the order ARRIVED (distance <= 100 m), URGENT (walking time > time to   *)
(* departure - 15), WARNING (walking time > time to departure - 30), SAFE; *)
(* within 100 m the status is ARRIVED whatever the time to departure, a    *)
(* flight that has already departed included.                              *)
C6_RuleOrder ==
    ev.done =>
        /\ ev.s1 = IF ev.d1 <= 10000 THEN "arrived"
                   ELSE IF ev.wt1 > ev.ttd - 15 THEN "urgent"
                   ELSE IF ev.wt1 > ev.ttd - 30 THEN "warning"
                   ELSE "safe"
        /\ ev.d1 <= 10000 => ev.s1 = "arrived"
        /\ ev.secs <= 0 => ev.ttd = 0

(* C6 witness: exactly 100 m from the gate of a flight that has departed.  *)
C6_Witness ==
    /\ ev.done
    /\ ev.d1 = 10000
    /\ ev.secs < 0
    /\ ev.s1 = "arrived"

Severity(alert_status) ==
    CASE alert_status = "safe" -> 0
      [] alert_status = "warning" -> 1
      [] alert_status = "urgent" -> 2
      [] OTHER -> None

(* C7: with the gate and the time to departure fixed, for distances        *)
(* d1 < d2 both above 100 m the status at d2 is never less severe than the *)
(* status at d1, in the order SAFE < WARNING < URGENT.                     *)
C7_StatusMonotone ==
    ( /\ ev.done
      /\ ev.d1 > 10000
      /\ ev.d1 < ev.d2 )
    => /\ Severity(ev.s1) >= 0
       /\ Severity(ev.s1) <= Severity(ev.s2)

(* C7 witness: one departure, SAFE at the nearer distance and URGENT at    *)
(* the farther one.                                                        *)
C7_Witness ==
    /\ ev.done
    /\ ev.d1 > 10000
    /\ ev.d1 < ev.d2
    /\ ev.s1 = "safe"
    /\ ev.s2 = "urgent"

(* The rows of one type that suppress an unforced dispatch now: created    *)
(* no longer ago than 5 minutes for urgent, 10 minutes for running_late.   *)
Suppressing(atype) ==
    {i \in Rows : /\ alerts[i].alert_type = atype
                  /\ Clock - alerts[i].created_at
                       <= (IF atype = "urgent" THEN 300 ELSE 600)}

(* C8: check_and_send_alerts routes on the status it has just computed:    *)
(* URGENT calls send_urgent_alert and WARNING calls send_running_late_alert*)
(* both with force=False; SAFE and ARRIVED create no alert, make no call,  *)
(* send no email and return None.                                          *)
C8_Routing ==
    [][/\ ( /\ wk[1].pc = "idle"
            /\ Steps(1)
            /\ wk'[1].op = "check_and_send_alerts" )
          => LET alert_status == CheckAlertStatus(wk'[1].sid).alert_status
             IN  /\ DBUnchanged
                 /\ alert_status = "urgent"
                      => wk'[1].pc = "cooldown" /\ wk'[1].atype = "urgent"
                 /\ alert_status = "warning"
                      => /\ wk'[1].pc = "cooldown"
                         /\ wk'[1].atype = "running_late"
                 /\ alert_status \in {"safe", "arrived"}
                      => wk'[1].pc = "idle" /\ wk'[1].result = "none"
       /\ ( /\ wk[1].pc = "cooldown"
            /\ Steps(1) )
          => /\ wk'[1].atype = wk[1].atype
             /\ ~wk'[1].force
             /\ Suppressing(wk[1].atype) # {} => wk'[1].result = "none"
       /\ ( /\ wk[1].op = "check_and_send_alerts"
            /\ Steps(1)
            /\ Len(alerts') > Len(alerts) )
          => /\ alerts'[Len(alerts')].alert_type = wk[1].atype
             /\ ~alerts'[Len(alerts')].forced
      ]_vars

(* C8 witness: check_and_send_alerts found URGENT and the urgent alert it  *)
(* dispatched is being notified.                                           *)
C8_Witness ==
    /\ wk[1].op = "check_and_send_alerts"
    /\ wk[1].status = "urgent"
    /\ wk[1].pc = "notify"
    /\ alerts[wk[1].alert_id].alert_type = "urgent"

(* C9: a dispatch that the cooldown suppresses returns None and creates no *)
(* row, makes no call, sends no email and leaves the session's context as  *)
(* it was.                                                                 *)
C9_SuppressedNoEffects ==
    [][/\ ( /\ wk[1].pc = "idle"
            /\ Steps(1)
            /\ wk'[1].op \in {"send_running_late_alert", "send_urgent_alert"}
            /\ wk'[1].sid = "s1"
            /\ ~wk'[1].force
            /\ session.reservation
            /\ Suppressing(wk'[1].atype) # {} )
          => /\ wk'[1].pc = "idle"
             /\ wk'[1].result = "none"
             /\ DBUnchanged
       /\ ( /\ wk[1].pc = "cooldown"
            /\ Steps(1)
            /\ session.reservation
            /\ Suppressing(wk[1].atype) # {} )
          => /\ wk'[1].pc = "idle"
             /\ wk'[1].result = "none"
             /\ DBUnchanged
      ]_vars

(* C9 witness: an unforced send_urgent_alert was suppressed after an       *)
(* urgent alert whose voice call had been made.                            *)
C9_Witness ==
    /\ wk[1].pc = "idle"
    /\ wk[1].op = "send_urgent_alert"
    /\ ~wk[1].force
    /\ wk[1].recent_alert
    /\ wk[1].result = "none"
    /\ calls >= 1
    /\ \E i \in Rows : alerts[i].alert_type = "urgent"

(* C10: in a sequential history an unforced dispatch never creates a       *)
(* running_late alert 10 minutes or less, or an urgent alert 5 minutes or  *)
(* less, after an alert of the same type; an alert exactly as old as the   *)
(* window still suppresses.                                                *)
C10_WindowsPerType ==
    \A i \in Rows : \A j \in Rows :
        ( /\ i < j
          /\ alerts[j].alert_type = alerts[i].alert_type
          /\ ~alerts[j].forced )
        => alerts[j].created_at - alerts[i].created_at
             > (IF alerts[j].alert_type = "urgent" THEN 300 ELSE 600)

(* C10 witness: two unforced urgent alerts, the second one created after   *)
(* the window of the first had passed.                                     *)
C10_Witness ==
    /\ Len(alerts) = 2
    /\ alerts[1].alert_type = "urgent"
    /\ alerts[2].alert_type = "urgent"
    /\ ~alerts[1].forced
    /\ ~alerts[2].forced

(* A dispatch has returned its result for the alert it created.           *)
Dispatched ==
    /\ wk[1].op \in DispatchOps
    /\ wk[1].result = "dict"
    /\ wk[1].alert_id \in Rows

(* C11: when a dispatch proceeds and the voice call fails, the alert is    *)
(* still persisted with voice_call_sent false, the helper email is still   *)
(* attempted when the context holds a helper email, and email_sent tells   *)
(* the email's outcome; and an email failure prevents neither the voice    *)
(* call nor the alert.                                                     *)
C11_IndependentChannels ==
    Dispatched =>
        LET alert == alerts[wk[1].alert_id]
        IN  /\ wk[1].call_result = "failed"
                 => /\ ~alert.voice_call_sent
                    /\ session.context.helper_email
                         => wk[1].email_result # "skipped"
                    /\ alert.email_sent = (wk[1].email_result = "sent")
            /\ wk[1].email_result \in {"failed", "unconfigured"}
                 => /\ ~alert.email_sent
                    /\ session.phone => wk[1].call_result # "skipped"
                    /\ alert.voice_call_sent = (wk[1].call_result = "sent")

(* C12: for every dispatched alert, running_late or urgent, with a helper  *)
(* email in the session context the email collaborator is invoked, and on  *)
(* its success the alert's email_sent is true.                             *)
C12_EmailFanOut ==
    ( Dispatched /\ session.context.helper_email )
    => /\ wk[1].email_result \in {"unconfigured", "failed", "sent"}
       /\ wk[1].email_result = "sent" => alerts[wk[1].alert_id].email_sent

(* C13: after a dispatch returns a result, the last-alert summary in the   *)
(* session's context describes the alert just created: its type and its    *)
(* message.                                                                *)
C13_ContextSummary ==
    Dispatched =>
        /\ session.context.location_alert.type
             = alerts[wk[1].alert_id].alert_type
        /\ session.context.location_alert.message
             = alerts[wk[1].alert_id].message

(* C14: the result of every dispatch that creates an alert contains        *)
(* voice_call_sent and email_sent, each true exactly when its collaborator *)
(* succeeded and each equal to the flag persisted on the alert's row.      *)
C14_ResultReportsChannels ==
    Dispatched =>
        /\ wk[1].r_voice \in {"True", "False"}
        /\ wk[1].r_email \in {"True", "False"}
        /\ (wk[1].r_voice = "True") = (wk[1].call_result = "sent")
        /\ (wk[1].r_email = "True") = (wk[1].email_result = "sent")
        /\ (wk[1].r_voice = "True") = alerts[wk[1].alert_id].voice_call_sent
        /\ (wk[1].r_email = "True") = alerts[wk[1].alert_id].email_sent

(* C15: whatever data is missing and whatever force is, the alert          *)
(* functions complete with a result, None, True or False; none ends with   *)
(* an exception.                                                           *)
C15_NeverRaises ==
    \A w \in RaceWorkers : wk[w].result # "raised"

(* C16: check_alert_status tests, in this order, that the session exists, *)
(* that a location fix exists, that the gate is resolvable and that a      *)
(* flight segment exists; the first test that fails decides the message,   *)
(* and distance, walking time and time to departure are then all absent.   *)
C16_PreconditionOrder ==
    ( wk[1].op = "check_alert_status" /\ wk[1].result = "dict" )
    => LET m == wk[1].metrics
           failed ==
               IF wk[1].sid # "s1" THEN "Session not found"
               ELSE IF Len(locations) = 0 THEN "No location data available"
               ELSE IF ~(session.reservation /\ session.segment /\ session.gate)
               THEN "Gate information not available"
               ELSE IF ~session.segment THEN "Flight information not available"
               ELSE "status"
       IN  /\ m.message = failed
           /\ IF failed = "status"
              THEN /\ m.distance_meters # None
                   /\ m.walking_time_minutes # None
                   /\ m.time_to_departure_minutes # None
              ELSE /\ m.distance_meters = None
                   /\ m.walking_time_minutes = None
                   /\ m.time_to_departure_minutes = None

(* C16 witness: neither a fix nor a gate; the missing fix is reported.     *)
C16_Witness ==
    /\ wk[1].op = "check_alert_status"
    /\ wk[1].result = "dict"
    /\ wk[1].sid = "s1"
    /\ Len(locations) = 0
    /\ ~session.gate
    /\ wk[1].metrics.message = "No location data available"

(* C17: acknowledge_alert on an existing alert returns True and leaves    *)
(* acknowledged true, the first time and every time after; on an id that   *)
(* does not exist it returns False and changes no alert.                   *)
C17_AcknowledgeIdempotent ==
    [][/\ ( /\ wk[1].pc = "idle"
            /\ Steps(1)
            /\ wk'[1].op = "acknowledge_alert" )
          => /\ alerts' = alerts
             /\ IF wk'[1].alert_id \in Rows
                THEN wk'[1].pc = "ack_save"
                ELSE wk'[1].result = "False"
       /\ ( /\ wk[1].pc = "ack_save"
            /\ Steps(1) )
          => /\ wk'[1].result = "True"
             /\ alerts' = [alerts EXCEPT
                             ![wk[1].alert_id].acknowledged = TRUE]
      ]_vars

(* C17 witness: the alert is acknowledged already and acknowledge_alert    *)
(* has loaded it once more.                                                *)
C17_Witness ==
    /\ wk[1].pc = "ack_save"
    /\ wk[1].row.acknowledged
    /\ alerts[wk[1].alert_id].acknowledged

(* The view v has answered the request.                                    *)
Responded(v) ==
    /\ wk[1].pc = "idle"
    /\ wk[1].view = v
    /\ wk[1].http # 0

(* C18 as claimed: the location-update endpoint calls update_location and  *)
(* then check_and_send_alerts for every valid request, and alert_triggered *)
(* is true exactly when the request created an alert.                      *)
C18_AlwaysChecksAlerts ==
    Responded("update_location")
    => /\ wk[1].op = "check_and_send_alerts"
       /\ wk[1].alert_triggered = (wk[1].alert_id \in Rows)

(* C18 amended: the endpoint calls check_and_send_alerts exactly when      *)
(* update_location stored the fix (known session, first fix or 50 m or     *)
(* more from the newest one); alert_triggered is true exactly when the     *)
(* request created an alert.                                               *)
C18_ChecksAlertsWhenStored ==
    Responded("update_location")
    => /\ wk[1].http = 200
       /\ (wk[1].op = "check_and_send_alerts")
            = ( /\ wk[1].sid = "s1"
                /\ \/ wk[1].last = None
                   \/ Abs(wk[1].lat - wk[1].last) >= 5000 )
       /\ wk[1].op = "check_and_send_alerts"
            => locations[Len(locations)] = wk[1].lat
       /\ wk[1].op # "check_and_send_alerts" => wk[1].alert_id = 0
       /\ wk[1].alert_triggered = (wk[1].alert_id \in Rows)

(* C18 witness: a stored fix whose alert check created an alert.           *)
C18_Witness ==
    /\ Responded("update_location")
    /\ wk[1].op = "check_and_send_alerts"
    /\ wk[1].alert_triggered
    /\ wk[1].alert_id \in Rows

(* C19: a request that names a session or an alert that does not exist is  *)
(* answered 404: a location update, a manual trigger, a history or alert   *)
(* query, an acknowledge.                                                  *)
C19_NotFound ==
    ( wk[1].pc = "idle" /\ wk[1].http # 0 )
    => /\ ( /\ wk[1].view \in {"update_location", "trigger_location_alert",
                               "get_location_history", "get_location_alerts"}
            /\ wk[1].sid = "nosuch" )
          => wk[1].http = 404
       /\ ( /\ wk[1].view = "acknowledge_alert"
            /\ wk[1].alert_id \notin Rows )
          => wk[1].http = 404

(* C20: the manual trigger dispatches with force=True: for a session with  *)
(* a reservation and a flight segment it creates an alert of the requested *)
(* type, inside the cooldown window too.                                   *)
C20_TriggerForces ==
    ( /\ Responded("trigger_location_alert")
      /\ wk[1].sid = "s1"
      /\ session.reservation
      /\ session.segment )
    => /\ wk[1].force
       /\ wk[1].http = 200
       /\ wk[1].alert_id \in Rows
       /\ alerts[wk[1].alert_id].alert_type = wk[1].atype
       /\ alerts[wk[1].alert_id].forced

(* C21: the metrics for the helper dashboard carry the most recently      *)
(* created alert of the session that is not acknowledged, or none when     *)
(* every alert is acknowledged; an acknowledged alert is never carried.    *)
C21_PendingAlert ==
    ( /\ wk[1].op = "get_location_metrics"
      /\ wk[1].result = "dict"
      /\ wk[1].sid = "s1" )
    => LET pending == {i \in Rows : ~alerts[i].acknowledged}
       IN  IF pending = {} THEN wk[1].alert = 0
           ELSE /\ wk[1].alert \in pending
                /\ \A j \in pending : j <= wk[1].alert

(* C21 witness: the newest alert is acknowledged and the metrics carry the *)
(* older one, which is not.                                                *)
C21_Witness ==
    /\ wk[1].op = "get_location_metrics"
    /\ wk[1].result = "dict"
    /\ Len(alerts) = 2
    /\ alerts[2].acknowledged
    /\ ~alerts[1].acknowledged
    /\ alerts[1].created_at < alerts[2].created_at
    /\ wk[1].alert = 1

(* C22: the time to departure check_alert_status reports is never         *)
(* negative: the whole minutes from now to the departure, and 0 at or      *)
(* after the departure.                                                    *)
C22_TimeToDepartureClamped ==
    ev.done
    => /\ ev.ttd >= 0
       /\ ev.secs <= 0 => ev.ttd = 0
       /\ ev.secs > 0 => /\ ev.ttd * 60 <= ev.secs
                         /\ ev.secs < (ev.ttd + 1) * 60

(* C22 witness: an evaluation two and a half minutes after the departure.  *)
C22_Witness ==
    /\ ev.done
    /\ ev.secs = -150
    /\ ev.ttd = 0
    /\ ev.d1 > 10000

(* C23: the walking time is the distance divided by the speed of the pace  *)
(* (normal 80, elderly 50, rushed 100 m/min, any other pace as elderly),   *)
(* rounded to the nearest integer and never less than 1; it does not       *)
(* decrease as the distance grows.                                         *)
C23_WalkingTime ==
    ev.done
    => LET speed == CASE ev.pace = "normal" -> 80
                      [] ev.pace = "rushed" -> 100
                      [] OTHER -> 50
           den == speed * 100
       IN  /\ ev.wt1 >= 1
           /\ IF 2 * ev.d1 <= den THEN ev.wt1 = 1
              ELSE 2 * Abs(ev.wt1 * den - ev.d1) <= den
           /\ ev.d1 <= ev.d2 => ev.wt1 <= ev.wt2

(* C23 witness: 200 m at the normal pace, two and a half minutes, is 2;    *)
(* a longer way at the same pace takes longer.                             *)
C23_Witness ==
    /\ ev.done
    /\ ev.pace = "normal"
    /\ ev.d1 = 20000
    /\ ev.wt1 = 2
    /\ ev.d2 > ev.d1
    /\ ev.wt2 > ev.wt1

(* C24: for one fix farther than 100 m from the gate, evaluated again and  *)
(* again as the clock advances, the status is never less severe than the   *)
(* evaluation before it (SAFE < WARNING < URGENT); it is URGENT whenever   *)
(* 15 minutes or less remain, also after the departure, and not SAFE       *)
(* whenever 30 minutes or less remain.                                     *)
C24_MonotoneInTime ==
    ( ev.done /\ ev.d1 > 10000 )
    => /\ Severity(ev.s2) >= 0
       /\ ev.s1 # "none" => Severity(ev.s1) <= Severity(ev.s2)
       /\ ev.ttd <= 15 => ev.s2 = "urgent"
       /\ ev.ttd <= 30 => ev.s2 # "safe"

(* C24 witness: the status of a fix 125 m away turns from WARNING to       *)
(* URGENT between two evaluations.                                         *)
C24_Witness ==
    /\ ev.done
    /\ ev.d1 = 12500
    /\ ev.s1 = "warning"
    /\ ev.s2 = "urgent"
    /\ ev.ttd <= 15

(* An alert of the type is due: the status of the session asks for it and  *)
(* no alert of the type lies within its cooldown window.                   *)
AlertDue(atype) ==
    /\ CheckAlertStatus("s1").alert_status
         = (IF atype = "urgent" THEN "urgent" ELSE "warning")
    /\ Suppressing(atype) = {}

(* The request in progress stored its fix and has yet to check for alerts. *)
FixStored ==
    /\ wk[1].pc = "returned"
    /\ wk[1].view = "update_location"
    /\ wk[1].op = "update_location"
    /\ wk[1].result = "stored"

(* C25 as claimed: while the client keeps sending location updates, a due  *)
(* alert does not stay due: an alert of the type is created (or the status *)
(* stops asking for it), also when the passenger is standing still.        *)
C25_DueAlertCreated ==
    \A atype \in AlertTypes : AlertDue(atype) ~> ~AlertDue(atype)

(* C25 amended: a due alert is created (or the status stops asking for it) *)
(* after every update whose fix is stored, the first fix or one 50 m or    *)
(* more from the newest stored fix; an update that is not stored, as when  *)
(* the passenger is standing still, runs no alert check and creates none.  *)
C25_DueAlertCreatedWhenStored ==
    /\ \A atype \in AlertTypes :
          (FixStored /\ AlertDue(atype)) ~> ~AlertDue(atype)
    /\ []( ( /\ Responded("update_location")
             /\ wk[1].sid = "s1"
             /\ wk[1].last # None
             /\ Abs(wk[1].lat - wk[1].last) < 5000 )
           => /\ wk[1].op = "update_location"
              /\ ~wk[1].alert_triggered
              /\ wk[1].alert_id = 0 )

(* C25 witness: the passenger moved, the fix was stored while an urgent    *)
(* alert was due, and the request created it.                              *)
C25_Witness ==
    /\ Responded("update_location")
    /\ wk[1].stored
    /\ wk[1].last # None
    /\ Len(locations) >= 2
    /\ wk[1].alert_triggered
    /\ wk[1].alert_id \in Rows
    /\ alerts[wk[1].alert_id].alert_type = "urgent"
    /\ alerts[wk[1].alert_id].created_at = Clock
    /\ Clock > 0

(* C26: every alert created through check_and_send_alerts records a        *)
(* distance, a walking time and a time to departure, and they agree with   *)
(* its type: an urgent alert has walking_time > time_to_departure - 15, a  *)
(* running_late alert walking_time > time_to_departure - 30, whatever      *)
(* location updates of the session run at the same time.                   *)
C26_AlertsMatchMetrics ==
    \A i \in Rows :
       /\ alerts[i].distance_to_gate # None
       /\ alerts[i].estimated_walking_time # None
       /\ alerts[i].time_to_departure # None
       /\ alerts[i].alert_type = "urgent"
            => alerts[i].estimated_walking_time
                 > alerts[i].time_to_departure - 15
       /\ alerts[i].alert_type = "running_late"
            => alerts[i].estimated_walking_time
                 > alerts[i].time_to_departure - 30

(* The alerts of session "s1" and one type that lie within the cooldown    *)
(* window of the type now.                                                 *)
SameScopeRecent(atype) ==
    \E i \in Rows :
       /\ alerts[i].session = "s1"
       /\ alerts[i].alert_type = atype
       /\ Clock - alerts[i].created_at
            <= (IF atype = "urgent" THEN 300 ELSE 600)

(* Handler 1 decides on the cooldown of an unforced dispatch for "s1".     *)
CooldownDecision ==
    /\ Steps(1)
    /\ \/ /\ wk[1].pc = "idle"
          /\ wk'[1].op \in {"send_running_late_alert", "send_urgent_alert"}
       \/ wk[1].pc = "cooldown"
    /\ wk'[1].sid = "s1"
    /\ ~wk'[1].force

(* C27: the cooldown is scoped to the session and the alert type: an       *)
(* unforced dispatch is suppressed exactly when an alert of the same       *)
(* session and the same type lies within the window; alerts of the other   *)
(* type and alerts of another session never suppress it.                   *)
C27_CooldownScope ==
    [][CooldownDecision
         => /\ wk'[1].recent_alert = SameScopeRecent(wk'[1].atype)
            /\ ~SameScopeRecent(wk'[1].atype) => wk'[1].pc = "create"
            /\ SameScopeRecent(wk'[1].atype)
                 => wk'[1].pc = "idle" /\ wk'[1].result = "none"]_vars

(* C27 witness: an unforced urgent dispatch for "s1" proceeds while an     *)
(* urgent alert of another session and a running_late alert of "s1" both   *)
(* lie within the last 5 minutes.                                          *)
C27_Witness ==
    /\ wk[1].pc = "create"
    /\ wk[1].atype = "urgent"
    /\ wk[1].sid = "s1"
    /\ ~wk[1].force
    /\ \E i \in Rows : /\ alerts[i].session = "s2"
                       /\ alerts[i].alert_type = "urgent"
                       /\ Clock - alerts[i].created_at <= 300
    /\ \E j \in Rows : /\ alerts[j].session = "s1"
                       /\ alerts[j].alert_type = "running_late"
                       /\ Clock - alerts[j].created_at <= 300

(* A forced alert of the type lies within the cooldown window of the type. *)
ForcedRecent(atype) ==
    \E i \in Rows :
       /\ alerts[i].session = "s1"
       /\ alerts[i].alert_type = atype
       /\ alerts[i].forced
       /\ Clock - alerts[i].created_at
            <= (IF atype = "urgent" THEN 300 ELSE 600)

(* C28: an alert created with force=true counts toward the cooldown: an    *)
(* unforced dispatch of its type for the session is suppressed, returning  *)
(* nothing and writing nothing, as long as the forced alert is no older    *)
(* than the cooldown window of the type.                                   *)
C28_ForcedCountsTowardCooldown ==
    [][( CooldownDecision /\ session.reservation
         /\ ForcedRecent(wk'[1].atype) )
         => /\ wk'[1].recent_alert
            /\ wk'[1].pc = "idle"
            /\ wk'[1].result = "none"
            /\ DBUnchanged]_vars

(* C28 witness: an unforced urgent dispatch suppressed by an alert that    *)
(* was forced, the only urgent alert there is; an earlier unforced         *)
(* dispatch had made the running_late alert before it.                     *)
C28_Witness ==
    /\ wk[1].pc = "idle"
    /\ wk[1].op \in {"send_urgent_alert", "check_and_send_alerts"}
    /\ wk[1].atype = "urgent"
    /\ ~wk[1].force
    /\ wk[1].recent_alert
    /\ Len(alerts) = 2
    /\ alerts[1].alert_type = "running_late"
    /\ alerts[2].alert_type = "urgent"
    /\ alerts[2].forced
    /\ Clock - alerts[2].created_at = 300

(* C29: a dispatch changes only the last-alert summary of the session:     *)
(* once send_running_late_alert has completed and a helper's wheelchair    *)
(* request for the session has been saved, the context still holds the     *)
(* wheelchair_assistance that request wrote, and helper_email as it was,    *)
(* however the two requests interleaved.                                   *)
C29_DispatchFrame ==
    ( /\ wk[1].op = "send_running_late_alert"
      /\ wk[1].pc = "idle"
      /\ wk[1].result = "dict"
      /\ wk[2].op = "execute_request_wheelchair"
      /\ wk[2].result = "dict"
      /\ wk[2].pc \in {"returned", "idle"} )
    => /\ session.context.wheelchair_assistance
       /\ ~session.context.helper_email

(* C30: every voice call and every helper email the dispatcher attempts    *)
(* comes after the LocationAlert row it belongs to was persisted, an alert *)
(* gets at most one call attempt and one email attempt, and so the call    *)
(* attempts and the email attempts never outnumber the persisted alerts.   *)
C30_NotifyAfterPersist ==
    /\ [](calls <= Len(alerts) /\ emails <= Len(alerts))
    /\ [][(calls' # calls \/ emails' # emails)
            => /\ wk[1].pc = "notify"
               /\ wk'[1].pc = "save"
               /\ wk[1].alert_id = Len(alerts)
               /\ alerts[wk[1].alert_id].alert_type = wk[1].atype
               /\ alerts[wk[1].alert_id].session = wk[1].sid
               /\ calls' - calls \in {0, 1}
               /\ emails' - emails \in {0, 1}
               /\ calls <= Len(alerts) - 1
               /\ emails <= Len(alerts) - 1
               /\ alerts' = alerts]_vars

(* C30 witness: two running_late alerts, each with its one call attempt    *)
(* and its one email attempt.                                              *)
C30_Witness ==
    /\ Len(alerts) = 2
    /\ calls = 2
    /\ emails = 2
    /\ wk[1].pc = "save"
    /\ wk[1].alert_id = 2
    /\ wk[1].call_result = "failed"
    /\ wk[1].email_result = "sent"

====
